---- MODULE Spec2Model ----
(***************************************************************************)
(* Model of controllers/bookController.js: the Book controller of the      *)
(* library catalog.  The store (Book, BookInstance, Author, Genre          *)
(* collections) is the shared state; every request is a process that runs  *)
(* its handler from one await to the next.                                 *)
(*                                                                         *)
(* Spec     : requests are served one at a time (the store is quiescent    *)
(*            while a request is in flight); the reads of one Promise.all  *)
(*            group still complete in any order, and any store operation   *)
(*            may fail.                                                    *)
(* SpecConc : an index request in flight while the BookInstance controller *)
(*            writes between any two of its count queries.                 *)
(* SpecRace : a delete POST in flight while the BookInstance controller    *)
(*            writes between any two of its steps.                         *)
(***************************************************************************)
EXTENDS Integers, Sequences, FiniteSets, TLC

VARIABLES books, instances, authors, genres, nextBookId, req, snaps

vars == <<books, instances, authors, genres, nextBookId, req, snaps>>

\* ------------------------------------------------------------------ bounds
MaxBooks == 2
MaxInstances == 1
MaxAuthors == 1
MaxGenres == 2

BookIds == 1..MaxBooks
InstanceIds == 1..MaxInstances
AuthorIds == 1..MaxAuthors
GenreIds == 1..MaxGenres
Procs == {1}

\* ------------------------------------------------------- request values
\* A value of a request body field: undefined, a string (a sequence of
\* one-character strings) or an array of values.
Undef == [t |-> "undefined", v |-> <<>>]
Str(s) == [t |-> "string", v |-> s]
Arr(a) == [t |-> "array", v |-> a]

RequiredFields == <<"title", "author", "summary", "isbn">>

Message(f) ==
  CASE f = "title" -> "Title must not be empty."
    [] f = "author" -> "Author must not be empty."
    [] f = "summary" -> "Summary must not be empty."
    [] f = "isbn" -> "ISBN must not be empty."

\* ------------------------------------------------- sanitizers, validators
IsSpace(c) == c = " "

RECURSIVE TrimLeft(_)
TrimLeft(s) ==
  IF s = <<>> THEN <<>>
  ELSE IF IsSpace(Head(s)) THEN TrimLeft(Tail(s)) ELSE s

RECURSIVE TrimRight(_)
TrimRight(s) ==
  IF s = <<>> THEN <<>>
  ELSE IF IsSpace(s[Len(s)]) THEN TrimRight(SubSeq(s, 1, Len(s) - 1)) ELSE s

\* .trim()
Trim(s) == TrimRight(TrimLeft(s))

EscapeChar(c) ==
  CASE c = "&" -> <<"&", "a", "m", "p", ";">>
    [] c = "<" -> <<"&", "l", "t", ";">>
    [] c = ">" -> <<"&", "g", "t", ";">>
    [] OTHER -> <<c>>

\* .escape()
RECURSIVE Escape(_)
Escape(s) ==
  IF s = <<>> THEN <<>> ELSE EscapeChar(Head(s)) \o Escape(Tail(s))

\* express-validator hands a standard sanitizer/validator the string form of
\* the field: the empty string for an absent field.
AsString(x) == IF x.t = "string" THEN x.v ELSE <<>>

\* .isLength({ min: 1 })
IsLengthMin1(s) == Len(s) >= 1

\* new Array(x) for a form value x (a string): the one-element array.
NewArray(x) == Arr(<<x>>)

\* NormalizeGenre with a fault: a scalar genre is dropped instead of wrapped.
NormalizeGenreDrop(b) ==
  IF b.genre.t # "array" THEN [b EXCEPT !.genre = Arr(<<>>)] ELSE b

\* First middleware of book_create_post / book_update_post.
NormalizeGenre(b) ==
  IF b.genre.t # "array"
  THEN [b EXCEPT !.genre = IF b.genre.t = "undefined" THEN Arr(<<>>)
                           ELSE NewArray(b.genre)]
  ELSE b

\* SanitizeField with a fault: the chain without .escape().
SanitizeFieldNoEscape(x) == Str(Trim(AsString(x)))

\* body(f, msg).trim().isLength({ min: 1 }).escape(): the value left in
\* req.body
SanitizeField(x) == Str(Escape(Trim(AsString(x))))

\* FieldValid with a fault: the chain without .isLength().
FieldValidAlways(x) == TRUE

\* whether isLength passes: it sees the trimmed, not yet escaped, value
FieldValid(x) == IsLengthMin1(Trim(AsString(x)))

\* body("genre.*").escape()
SanitizeGenre(g) == Arr([i \in 1..Len(g.v) |-> Str(Escape(AsString(g.v[i])))])

\* The validation chain of both POST pipelines, applied to the normalized
\* body.
SanitizeBody(b) ==
  [title |-> SanitizeField(b.title),
   author |-> SanitizeField(b.author),
   summary |-> SanitizeField(b.summary),
   isbn |-> SanitizeField(b.isbn),
   genre |-> SanitizeGenre(b.genre)]

RECURSIVE ErrorsFrom(_, _)
ErrorsFrom(b, fs) ==
  IF fs = <<>> THEN <<>>
  ELSE (IF FieldValid(b[Head(fs)]) THEN <<>>
        ELSE << [path |-> Head(fs), msg |-> Message(Head(fs))] >>)
       \o ErrorsFrom(b, Tail(fs))

\* validationResult(req).array()
ValidationErrors(b) == ErrorsFrom(b, RequiredFields)

\* ------------------------------------------------------------ documents
\* A Book document; null is the document with _id 0.
Null ==
  [_id |-> 0, title |-> <<>>, author |-> <<>>, summary |-> <<>>,
   isbn |-> <<>>, genre |-> <<>>]

IsNull(b) == b._id = 0

\* new Book({ title, author, summary, isbn, genre [, _id] }) from the
\* sanitized body c
MakeBook(id, c) ==
  [_id |-> id, title |-> c.title.v, author |-> c.author.v,
   summary |-> c.summary.v, isbn |-> c.isbn.v,
   genre |-> [i \in 1..Len(c.genre.v) |-> c.genre.v[i].v]]

\* book.url: the canonical detail path of a Book
BookUrl(b) == <<"/catalog/book", b._id>>

BookListUrl == <<"/catalog/books">>

\* ------------------------------------------------------------- the store
\* Book.findById(id)
FindBookById(id) == IF id \in DOMAIN books THEN books[id] ELSE Null

\* BookInstance.find({ book: id })
FindInstancesOf(id) ==
  {[_id |-> i, book |-> instances[i].book, status |-> instances[i].status] :
     i \in {j \in DOMAIN instances : instances[j].book = id}}

CountAvailable ==
  Cardinality({i \in DOMAIN instances : instances[i].status = "Available"})

\* ------------------------------------------------------------- responses
NoResp ==
  [type |-> "", view |-> "", url |-> <<>>, status |-> "", msg |-> "",
   book |-> Null, book_instances |-> {}, errors |-> <<>>,
   counts |-> <<>>, authors |-> {}, genres |-> {}]

Redirect(u) == [NoResp EXCEPT !.type = "redirect", !.url = u]

\* next(err): status is err.status ("none" when the error carries none)
NextError(st, m) ==
  [NoResp EXCEPT !.type = "next_error", !.status = st, !.msg = m]

RenderIndex(g) ==
  [NoResp EXCEPT !.type = "render", !.view = "index",
     !.counts = <<g.numBooks, g.numInstances, g.numAvailableInstances,
                  g.numAuthors, g.numGenres>>]

RenderBook(view, b, insts) ==
  [NoResp EXCEPT !.type = "render", !.view = view, !.book = b,
     !.book_instances = insts]

RenderForm(b, errs, as, gs) ==
  [NoResp EXCEPT !.type = "render", !.view = "book_form", !.book = b,
     !.errors = errs, !.authors = as, !.genres = gs]

\* -------------------------------------------------------------- requests
EmptyBody ==
  [title |-> Undef, author |-> Undef, summary |-> Undef, isbn |-> Undef,
   genre |-> Undef]

NoReads ==
  [book |-> Null, bookInstances |-> {}, allAuthors |-> {}, allGenres |-> {},
   numBooks |-> 0, numInstances |-> 0, numAvailableInstances |-> 0,
   numAuthors |-> 0, numGenres |-> 0]

Idle ==
  [kind |-> "idle", pc |-> "idle", id |-> 0, body |-> EmptyBody,
   norm |-> EmptyBody, clean |-> EmptyBody, errors |-> <<>>, book |-> Null,
   group |-> {}, pending |-> {}, got |-> NoReads, out |-> <<>>,
   dispatched |-> 0, failed |-> FALSE,
   pre |-> [books |-> << >>, instances |-> << >>]]

IndexReads ==
  {"numBooks", "numInstances", "numAvailableInstances", "numAuthors",
   "numGenres"}
BookReads == {"book", "bookInstances"}
FormReads == {"allAuthors", "allGenres"}
UpdateGetReads == {"book", "allAuthors", "allGenres"}

\* The catalog before its first Book: the Authors and Genres a Book refers
\* to are there (the Author and Genre controllers are not modelled, and the
\* two collections stay as they are).
Init ==
  /\ books = << >>
  /\ instances = << >>
  /\ authors = AuthorIds
  /\ genres = GenreIds
  /\ nextBookId = 1
  /\ req = [p \in Procs |-> Idle]
  /\ snaps = [p \in Procs |-> {}]

Quiescent == \A p \in Procs : req[p].pc = "idle"

store == <<books, instances, authors, genres, nextBookId>>

\* The five counts of the store.
StoreCounts ==
  <<Cardinality(DOMAIN books), Cardinality(DOMAIN instances), CountAvailable,
    Cardinality(authors), Cardinality(genres)>>

\* History: the count tuples the store went through while an index request
\* was in flight.
Observe ==
  snaps' = [p \in Procs |->
     IF req'[p].kind # "index" THEN {}
     ELSE IF req'[p].pc = "done" THEN snaps[p]
     ELSE (IF req[p].kind = "index" THEN snaps[p] ELSE {}) \cup {StoreCounts'}]

\* History: the Book and BookInstance collections as a request finds them.
Pre == [books |-> books, instances |-> instances]

\* The request of a handler that opens with a Promise.all of reads, as it
\* awaits them.
Fanout(kind, id, reads) ==
  [Idle EXCEPT !.kind = kind, !.pc = "await_reads", !.id = id, !.pre = Pre,
               !.group = reads, !.pending = reads,
               !.dispatched = Cardinality(reads)]

index(p) ==
  /\ req[p].pc = "idle"
  /\ req' = [req EXCEPT ![p] = Fanout("index", 0, IndexReads)]
  /\ UNCHANGED store
  /\ Observe

book_detail(p, id) ==
  /\ req[p].pc = "idle"
  /\ req' = [req EXCEPT ![p] = Fanout("book_detail", id, BookReads)]
  /\ UNCHANGED store
  /\ Observe

book_create_get(p) ==
  /\ req[p].pc = "idle"
  /\ req' = [req EXCEPT ![p] = Fanout("book_create_get", 0, FormReads)]
  /\ UNCHANGED store
  /\ Observe

book_delete_get(p, id) ==
  /\ req[p].pc = "idle"
  /\ req' = [req EXCEPT ![p] = Fanout("book_delete_get", id, BookReads)]
  /\ UNCHANGED store
  /\ Observe

\* id is req.body.bookid
book_delete_post(p, id) ==
  /\ req[p].pc = "idle"
  /\ req' = [req EXCEPT ![p] = Fanout("book_delete_post", id, BookReads)]
  /\ UNCHANGED store
  /\ Observe

book_update_get(p, id) ==
  /\ req[p].pc = "idle"
  /\ req' = [req EXCEPT ![p] = Fanout("book_update_get", id, UpdateGetReads)]
  /\ UNCHANGED store
  /\ Observe

\* ------------------------------------------------------- request bodies
TitleValues == {Str(<<" ">>), Str(<<" ", "<", "a", " ">>)}
AuthorValues == {Str(<<>>), Str(<<"b">>)}
SummaryValues == {Undef, Str(<<"a", " ", "&">>)}
IsbnValues == {Str(<<" ", " ">>), Str(<<"1", " ">>)}
GenreValues ==
  {Undef, Str(<<"<">>), Arr(<<>>), Arr(<<Str(<<" ", "g">>), Str(<<"&">>)>>)}

AllBodies ==
  [title : TitleValues, author : AuthorValues, summary : SummaryValues,
   isbn : IsbnValues, genre : GenreValues]

ArrayGenre == Arr(<<Str(<<" ", "g">>), Str(<<"&">>)>>)

\* Every combination of the required fields with an array genre, and every
\* shape of genre with the required fields all valid or all invalid.
Bodies ==
  {b \in AllBodies :
     \/ b.genre = ArrayGenre
     \/ \A i \in 1..Len(RequiredFields) : FieldValid(b[RequiredFields[i]])
     \/ \A i \in 1..Len(RequiredFields) : ~FieldValid(b[RequiredFields[i]])}

\* The synchronous part of a POST pipeline: the genre middleware, the
\* validation chain and the construction of the Book, up to the first
\* await of the final handler.
Pipeline(p, kind, id, bookId, b) ==
  LET n == NormalizeGenre(b)
      c == SanitizeBody(n)
      errs == ValidationErrors(n)
      bk == MakeBook(bookId, c)
      r == [Idle EXCEPT !.kind = kind, !.id = id, !.body = b, !.norm = n,
                        !.clean = c, !.errors = errs, !.book = bk,
                        !.pre = Pre]
  IN req' = [req EXCEPT ![p] =
       IF errs # <<>>
       THEN [r EXCEPT !.pc = "await_reads", !.group = FormReads,
                      !.pending = FormReads,
                      !.dispatched = Cardinality(FormReads)]
       ELSE [r EXCEPT !.pc = "await_write"]]

\* new Book() draws a fresh identifier
book_create_post(p, b) ==
  /\ req[p].pc = "idle"
  /\ nextBookId <= MaxBooks
  /\ Pipeline(p, "book_create_post", 0, nextBookId, b)
  /\ nextBookId' = nextBookId + 1
  /\ UNCHANGED <<books, instances, authors, genres>>
  /\ Observe

\* the Book is built with _id: req.params.id
book_update_post(p, id, b) ==
  /\ req[p].pc = "idle"
  /\ Pipeline(p, "book_update_post", id, id, b)
  /\ UNCHANGED store
  /\ Observe

\* ------------------------------------------------------------ the reads
\* ReadValue with a fault: the available count without its status filter.
ReadValueNoFilter(r, id) ==
  CASE r = "book" -> FindBookById(id)
    [] r = "bookInstances" -> FindInstancesOf(id)
    [] r = "allAuthors" -> authors
    [] r = "allGenres" -> genres
    [] r = "numBooks" -> Cardinality(DOMAIN books)
    [] r = "numInstances" -> Cardinality(DOMAIN instances)
    [] r = "numAvailableInstances" -> Cardinality(DOMAIN instances)
    [] r = "numAuthors" -> Cardinality(authors)
    [] r = "numGenres" -> Cardinality(genres)

\* what each read of a Promise.all group resolves to
ReadValue(r, id) ==
  CASE r = "book" -> FindBookById(id)
    [] r = "bookInstances" -> FindInstancesOf(id)
    [] r = "allAuthors" -> authors
    [] r = "allGenres" -> genres
    [] r = "numBooks" -> Cardinality(DOMAIN books)
    [] r = "numInstances" -> Cardinality(DOMAIN instances)
    [] r = "numAvailableInstances" -> CountAvailable
    [] r = "numAuthors" -> Cardinality(authors)
    [] r = "numGenres" -> Cardinality(genres)

\* One read of the Promise.all group resolves.
CompleteRead(p, r) ==
  /\ req[p].pc = "await_reads"
  /\ r \in req[p].pending
  /\ req' = [req EXCEPT ![p].got[r] = ReadValue(r, req[p].id),
                        ![p].pending = @ \ {r}]
  /\ UNCHANGED store
  /\ Observe

\* the partial results of the group are dropped with the rejection
Fail(p) ==
  req' = [req EXCEPT ![p].pc = "done", ![p].failed = TRUE,
                     ![p].got = NoReads,
                     ![p].out = <<NextError("none", "store")>>]

\* FailRead with a fault: the group goes on to its join after a rejection.
FailReadPartial(p, r) ==
  /\ req[p].pc = "await_reads"
  /\ r \in req[p].pending
  /\ req' = [req EXCEPT ![p].pending = @ \ {r}, ![p].failed = TRUE]
  /\ UNCHANGED store
  /\ Observe

\* One read rejects: Promise.all rejects at once, the await throws and
\* express-async-handler passes the error to next.
FailRead(p, r) ==
  /\ req[p].pc = "await_reads"
  /\ r \in req[p].pending
  /\ Fail(p)
  /\ UNCHANGED store
  /\ Observe

Joined(p, kind) ==
  /\ req[p].kind = kind
  /\ req[p].pc = "await_reads"
  /\ req[p].pending = {}

Respond(p, rs) == req' = [req EXCEPT ![p].pc = "done", ![p].out = rs]

\* ------------------------------------------- after the await of the reads
index_render(p) ==
  /\ Joined(p, "index")
  /\ Respond(p, <<RenderIndex(req[p].got)>>)
  /\ UNCHANGED store
  /\ Observe

book_detail_respond(p) ==
  /\ Joined(p, "book_detail")
  /\ IF IsNull(req[p].got.book)
     THEN Respond(p, <<NextError("404", "Book not found")>>)
     ELSE Respond(p, <<RenderBook("book_detail", req[p].got.book,
                                  req[p].got.bookInstances)>>)
  /\ UNCHANGED store
  /\ Observe

book_create_get_render(p) ==
  /\ Joined(p, "book_create_get")
  /\ Respond(p, <<RenderForm(Null, <<>>, req[p].got.allAuthors,
                             req[p].got.allGenres)>>)
  /\ UNCHANGED store
  /\ Observe

\* the re-render of book_form by either POST handler
book_form_rerender(p) ==
  /\ \/ Joined(p, "book_create_post")
     \/ Joined(p, "book_update_post")
  /\ Respond(p, <<RenderForm(req[p].book, req[p].errors,
                             req[p].got.allAuthors, req[p].got.allGenres)>>)
  /\ UNCHANGED store
  /\ Observe

\* no return after the redirect: res.render is called as well
book_delete_get_respond(p) ==
  /\ Joined(p, "book_delete_get")
  /\ LET view == RenderBook("book_delete", req[p].got.book,
                            req[p].got.bookInstances)
     IN IF IsNull(req[p].got.book)
        THEN Respond(p, <<Redirect(BookListUrl), view>>)
        ELSE Respond(p, <<view>>)
  /\ UNCHANGED store
  /\ Observe

\* book_delete_post_decide with a fault: the delete without the guard.
book_delete_post_unguarded(p) ==
  /\ Joined(p, "book_delete_post")
  /\ req' = [req EXCEPT ![p].pc = "await_write"]
  /\ UNCHANGED store
  /\ Observe

book_delete_post_decide(p) ==
  /\ Joined(p, "book_delete_post")
  /\ IF req[p].got.bookInstances # {}
     THEN Respond(p, <<RenderBook("book_delete", req[p].got.book,
                                  req[p].got.bookInstances)>>)
     ELSE req' = [req EXCEPT ![p].pc = "await_write"]
  /\ UNCHANGED store
  /\ Observe

\* book_update_get_respond with a fault: next(err) without the return.
book_update_get_no_return(p) ==
  /\ Joined(p, "book_update_get")
  /\ LET form == RenderForm(req[p].got.book, <<>>, req[p].got.allAuthors,
                            req[p].got.allGenres)
     IN IF IsNull(req[p].got.book)
        THEN Respond(p, <<NextError("404", "Book not found"), form>>)
        ELSE Respond(p, <<form>>)
  /\ UNCHANGED store
  /\ Observe

book_update_get_respond(p) ==
  /\ Joined(p, "book_update_get")
  /\ IF IsNull(req[p].got.book)
     THEN Respond(p, <<NextError("404", "Book not found")>>)
     ELSE Respond(p, <<RenderForm(req[p].got.book, <<>>,
                                  req[p].got.allAuthors,
                                  req[p].got.allGenres)>>)
  /\ UNCHANGED store
  /\ Observe

\* ------------------------------------------------------------ the writes
Writing(p, kind) == req[p].kind = kind /\ req[p].pc = "await_write"

\* await Book.findByIdAndDelete(req.body.bookid); res.redirect
book_delete_post_delete(p) ==
  /\ Writing(p, "book_delete_post")
  /\ books' = [i \in DOMAIN books \ {req[p].id} |-> books[i]]
  /\ Respond(p, <<Redirect(BookListUrl)>>)
  /\ UNCHANGED <<instances, authors, genres, nextBookId>>
  /\ Observe

\* await book.save(); res.redirect(book.url)
book_create_post_save(p) ==
  /\ Writing(p, "book_create_post")
  /\ books' = (req[p].book._id :> req[p].book) @@ books
  /\ Respond(p, <<Redirect(BookUrl(req[p].book))>>)
  /\ UNCHANGED <<instances, authors, genres, nextBookId>>
  /\ Observe

\* updatedBook = await Book.findByIdAndUpdate(req.params.id, book, {});
\* res.redirect(updatedBook.url): the document, or null when the id
\* matches none, and then reading .url throws a TypeError
book_update_post_update(p) ==
  /\ Writing(p, "book_update_post")
  /\ LET updatedBook == FindBookById(req[p].id)
     IN IF IsNull(updatedBook)
        THEN /\ Respond(p, <<NextError("none", "TypeError")>>)
             /\ UNCHANGED books
        ELSE /\ books' = [books EXCEPT ![req[p].id] = req[p].book]
             /\ Respond(p, <<Redirect(BookUrl(updatedBook))>>)
  /\ UNCHANGED <<instances, authors, genres, nextBookId>>
  /\ Observe

\* the awaited write rejects
FailWrite(p) ==
  /\ req[p].pc = "await_write"
  /\ Fail(p)
  /\ UNCHANGED store
  /\ Observe

\* the response is on its way; the process takes the next request
Reset(p) ==
  /\ req[p].pc = "done"
  /\ req' = [req EXCEPT ![p] = Idle]
  /\ UNCHANGED store
  /\ Observe

\* --------------------------------------- writes of the other controllers
Statuses == {"Available", "Loaned"}

FreshInstanceId == CHOOSE i \in InstanceIds : i \notin DOMAIN instances

InstanceCreate(b, st) ==
  /\ b \in DOMAIN books
  /\ DOMAIN instances # InstanceIds
  /\ instances' = (FreshInstanceId :> [book |-> b, status |-> st]) @@ instances
  /\ UNCHANGED <<books, authors, genres, nextBookId, req>>
  /\ Observe

InstanceDelete(i) ==
  /\ i \in DOMAIN instances
  /\ instances' = [j \in DOMAIN instances \ {i} |-> instances[j]]
  /\ UNCHANGED <<books, authors, genres, nextBookId, req>>
  /\ Observe

\* ------------------------------------------------------- specifications
Step(p) ==
  \/ \E r \in IndexReads \cup BookReads \cup UpdateGetReads :
        CompleteRead(p, r)
  \/ \E r \in IndexReads \cup BookReads \cup UpdateGetReads : FailRead(p, r)
  \/ index_render(p)
  \/ book_detail_respond(p)
  \/ book_create_get_render(p)
  \/ book_form_rerender(p)
  \/ book_delete_get_respond(p)
  \/ book_delete_post_decide(p)
  \/ book_update_get_respond(p)
  \/ book_delete_post_delete(p)
  \/ book_create_post_save(p)
  \/ book_update_post_update(p)
  \/ FailWrite(p)
  \/ Reset(p)

Request(p) ==
  \/ index(p)
  \/ \E id \in BookIds : book_detail(p, id)
  \/ book_create_get(p)
  \/ \E b \in Bodies : book_create_post(p, b)
  \/ \E id \in BookIds : book_delete_get(p, id)
  \/ \E id \in BookIds : book_delete_post(p, id)
  \/ \E id \in BookIds : book_update_get(p, id)
  \/ \E id \in BookIds, b \in Bodies : book_update_post(p, id, b)

\* One request at a time; the other controllers write between requests.
QuiescentWriter ==
  \/ \E b \in BookIds, st \in Statuses : Quiescent /\ InstanceCreate(b, st)
  \/ \E i \in InstanceIds : Quiescent /\ InstanceDelete(i)

Next ==
  \/ \E p \in Procs : Request(p)
  \/ \E p \in Procs : Step(p)
  \/ QuiescentWriter

Spec == Init /\ [][Next]_vars

\* An index request in flight while the BookInstance controller writes
\* between any two of its count queries.
ValidBody ==
  [title |-> Str(<<"a">>), author |-> Str(<<"b">>), summary |-> Str(<<"c">>),
   isbn |-> Str(<<"1">>), genre |-> Undef]

InitConc ==
  /\ books = [i \in BookIds |-> MakeBook(i, SanitizeBody(NormalizeGenre(ValidBody)))]
  /\ instances = << >>
  /\ authors = AuthorIds
  /\ genres = GenreIds
  /\ nextBookId = MaxBooks + 1
  /\ req = [p \in Procs |-> Idle]
  /\ snaps = [p \in Procs |-> {}]

\* Which Book a new instance references does not bear on the counts.
AnyBook == CHOOSE b \in BookIds : TRUE

StepConc(p) ==
  \/ \E r \in IndexReads : CompleteRead(p, r)
  \/ \E r \in IndexReads : FailRead(p, r)
  \/ index_render(p)
  \/ Reset(p)

NextConc ==
  \/ \E p \in Procs : index(p)
  \/ \E p \in Procs : StepConc(p)
  \/ \E st \in Statuses : InstanceCreate(AnyBook, st)
  \/ \E i \in InstanceIds : InstanceDelete(i)

SpecConc == InitConc /\ [][NextConc]_vars

\* A delete POST in flight while the BookInstance controller writes.
StepRace(p) ==
  \/ \E r \in BookReads : CompleteRead(p, r)
  \/ \E r \in BookReads : FailRead(p, r)
  \/ book_delete_post_decide(p)
  \/ book_delete_post_delete(p)
  \/ FailWrite(p)
  \/ Reset(p)

NextRace ==
  \/ \E p \in Procs, id \in BookIds : book_delete_post(p, id)
  \/ \E p \in Procs : StepRace(p)
  \/ \E b \in BookIds, st \in Statuses : InstanceCreate(b, st)
  \/ \E i \in InstanceIds : InstanceDelete(i)

SpecRace == InitConc /\ [][NextRace]_vars

\* ================================================================ claims
\* The request of process p was served to its end by handler kind, every
\* store operation it awaited having succeeded.
Served(p, kind) ==
  /\ req[p].kind = kind
  /\ req[p].pc = "done"
  /\ ~req[p].failed

InstancesOfIn(id, insts) ==
  {[_id |-> i, book |-> insts[i].book, status |-> insts[i].status] :
     i \in {j \in DOMAIN insts : insts[j].book = id}}

BookIn(id, bs) == IF id \in DOMAIN bs THEN bs[id] ELSE Null

\* C1: a delete POST for a Book that BookInstances reference leaves both
\* collections as they were and renders book_delete with the Book and those
\* instances; for a Book no instance references it removes that Book, leaves
\* every other Book and every instance alone, and redirects to the list.
C1_DeleteGuard ==
  \A p \in Procs :
    Served(p, "book_delete_post") =>
      LET id == req[p].id
          pre == req[p].pre
          refs == InstancesOfIn(id, pre.instances)
      IN /\ instances = pre.instances
         /\ IF refs # {}
            THEN /\ books = pre.books
                 /\ req[p].out =
                      <<RenderBook("book_delete", BookIn(id, pre.books), refs)>>
            ELSE /\ id \notin DOMAIN books
                 /\ DOMAIN books = DOMAIN pre.books \ {id}
                 /\ \A i \in DOMAIN books : books[i] = pre.books[i]
                 /\ req[p].out = <<Redirect(BookListUrl)>>

\* a delete POST was refused because an instance references the Book
C1_Witness ==
  /\ Served(1, "book_delete_post")
  /\ req[1].id \in DOMAIN books
  /\ \E i \in DOMAIN instances : instances[i].book = req[1].id
  /\ req[1].out[1].type = "render"

\* C5: a detail GET or update GET whose identifier resolves to no Book ends
\* with one outcome, an error of status 404 passed to next, and leaves the
\* store alone; when the identifier resolves the one outcome is the render
\* of book_detail / book_form with that Book.
C5_NotFound ==
  \A p \in Procs :
    \A kind \in {"book_detail", "book_update_get"} :
      Served(p, kind) =>
        LET id == req[p].id
            pre == req[p].pre
        IN /\ books = pre.books
           /\ instances = pre.instances
           /\ Len(req[p].out) = 1
           /\ IF id \notin DOMAIN pre.books
              THEN /\ req[p].out[1].type = "next_error"
                   /\ req[p].out[1].status = "404"
              ELSE /\ req[p].out[1].type = "render"
                   /\ req[p].out[1].view =
                        (IF kind = "book_detail" THEN "book_detail"
                         ELSE "book_form")
                   /\ req[p].out[1].book = pre.books[id]

\* an update GET for an identifier that resolves to no Book was answered
C5_Witness ==
  /\ Served(1, "book_update_get")
  /\ req[1].id \notin DOMAIN books
  /\ DOMAIN books # {}

\* C6: a delete GET whose identifier resolves to no Book produces exactly
\* one response, the redirect to /catalog/books, and renders nothing.
C6_RedirectOnly ==
  \A p \in Procs :
    (Served(p, "book_delete_get") /\ req[p].id \notin DOMAIN req[p].pre.books)
      => req[p].out = <<Redirect(BookListUrl)>>

\* C7: every BookInstance in the store references a Book that is in the
\* store.
C7_NoDanglingInstance ==
  \A i \in DOMAIN instances : instances[i].book \in DOMAIN books

\* The submitted value of a required field, trimmed and escaped.
TrimmedEscaped(x) == Escape(Trim(AsString(x)))

\* A required field is missing, or empty once trimmed.
Invalid(x) == Trim(AsString(x)) = <<>>

ValidSubmission(b) ==
  \A i \in 1..Len(RequiredFields) : ~Invalid(b[RequiredFields[i]])

\* The elements of the submitted genre field: none when it is absent, the
\* value itself when it is a scalar.
SubmittedGenres(b) ==
  IF b.genre.t = "undefined" THEN <<>>
  ELSE IF b.genre.t = "string" THEN <<b.genre>>
  ELSE b.genre.v

\* Exactly one Book, the one of request p, was added to the collection.
OneBookAdded(p) ==
  LET id == req[p].book._id
      pre == req[p].pre
  IN /\ id \notin DOMAIN pre.books
     /\ DOMAIN books = DOMAIN pre.books \cup {id}
     /\ \A i \in DOMAIN pre.books : books[i] = pre.books[i]

RequiredFieldsStored(d, b) ==
  /\ d.title = TrimmedEscaped(b.title)
  /\ d.author = TrimmedEscaped(b.author)
  /\ d.summary = TrimmedEscaped(b.summary)
  /\ d.isbn = TrimmedEscaped(b.isbn)

C3_InvalidRejected ==
  \A p \in Procs :
    \A kind \in {"book_create_post", "book_update_post"} :
      (req[p].kind = kind /\ ~ValidSubmission(req[p].body)) =>
        /\ books = req[p].pre.books
        /\ instances = req[p].pre.instances
        /\ \A k \in 1..Len(req[p].out) : req[p].out[k].type # "redirect"
        /\ Served(p, kind) =>
             /\ Len(req[p].out) = 1
             /\ req[p].out[1].type = "render"
             /\ req[p].out[1].view = "book_form"
             /\ \A i \in 1..Len(RequiredFields) :
                  Cardinality({k \in 1..Len(req[p].out[1].errors) :
                     req[p].out[1].errors[k].path = RequiredFields[i]})
                  = IF Invalid(req[p].body[RequiredFields[i]]) THEN 1 ELSE 0
             /\ \A k \in 1..Len(req[p].out[1].errors) :
                  \E i \in 1..Len(RequiredFields) :
                    /\ req[p].out[1].errors[k].path = RequiredFields[i]
                    /\ req[p].out[1].errors[k].msg = Message(RequiredFields[i])

\* an update of an existing Book was rejected with two violations
C3_Witness ==
  /\ Served(1, "book_update_post")
  /\ req[1].id \in DOMAIN books
  /\ Len(req[1].out[1].errors) = 2

\* C4: a valid update submission for identifier id, whether or not id
\* resolves to a Book, inserts no Book and changes no identifier, leaves the
\* record with identifier id holding the submitted (sanitized) values, and
\* redirects to the detail path of that record.
C4_UpdateAnyId ==
  \A p \in Procs :
    (Served(p, "book_update_post") /\ ValidSubmission(req[p].body)) =>
      LET id == req[p].id
          gs == SubmittedGenres(req[p].body)
      IN /\ DOMAIN books = DOMAIN req[p].pre.books
         /\ id \in DOMAIN books
         /\ RequiredFieldsStored(books[id], req[p].body)
         /\ books[id].genre = [i \in 1..Len(gs) |-> Escape(AsString(gs[i]))]
         /\ books[id]._id = id
         /\ req[p].out = <<Redirect(<<"/catalog/book", id>>)>>

\* C10: after the first middleware of either POST pipeline the genre field
\* is a sequence: empty if the field was absent, the one value if it was a
\* scalar, the same sequence if it was one; no other field is changed, and
\* the Book built afterwards carries those elements, escaped.
C10_GenreIsSequence ==
  \A p \in Procs :
    req[p].kind \in {"book_create_post", "book_update_post"} =>
      LET b == req[p].body
          n == req[p].norm
      IN /\ n.genre.t = "array"
         /\ n.genre.v = SubmittedGenres(b)
         /\ \A i \in 1..Len(RequiredFields) :
              n[RequiredFields[i]] = b[RequiredFields[i]]
         /\ req[p].book.genre =
              [i \in 1..Len(n.genre.v) |-> Escape(AsString(n.genre.v[i]))]

\* a submission whose genre is a single scalar went through the pipeline
C10_Witness ==
  /\ req[1].kind = "book_update_post"
  /\ req[1].body.genre.t = "string"
  /\ req[1].pc = "done"
  /\ req[1].book.genre = <<EscapeChar("<")>>

\* C8 as stated: the five counts rendered by index are the counts of one
\* single store state that existed during the request.
C8_OneSnapshot ==
  \A p \in Procs :
    Served(p, "index") => req[p].out[1].counts \in snaps[p]

\* C8 amended: each of the five rendered counts is that count in some store
\* state that existed during the request, not necessarily the same state
\* for all five; when the counts of the store do not change during the
\* request, the five are the counts of that one state.
C8_EachCountFromSomeSnapshot ==
  \A p \in Procs :
    Served(p, "index") =>
      LET counts == req[p].out[1].counts
      IN /\ Len(req[p].out) = 1
         /\ req[p].out[1].type = "render"
         /\ req[p].out[1].view = "index"
         /\ Len(counts) = 5
         /\ \A i \in 1..5 : \E sn \in snaps[p] : counts[i] = sn[i]
         /\ Cardinality(snaps[p]) = 1 => counts \in snaps[p]

\* index rendered counts, one of them not zero, after BookInstances were
\* written while its count queries were in flight
C8_Witness ==
  /\ Served(1, "index")
  /\ Cardinality(snaps[1]) > 1
  /\ req[1].out[1].counts[3] > 0

\* C9: a handler renders, redirects or deletes only after every read of its
\* Promise.all group has completed, whatever the order of completion; if a
\* read fails the request fails: nothing is rendered, no read is dispatched
\* again and nothing is deleted.
C9_AllOrNothing ==
  \A p \in Procs :
    LET r == req[p]
        answered == \E k \in 1..Len(r.out) : r.out[k].type \in {"render", "redirect"}
    IN /\ r.pending \subseteq r.group
       /\ r.dispatched = Cardinality(r.group)
       /\ answered => (r.pending = {} /\ ~r.failed)
       /\ r.pc = "await_write" => (r.pending = {} /\ ~r.failed)
       /\ books # r.pre.books => (r.pending = {} /\ ~r.failed)
       /\ r.failed =>
            /\ r.pc = "done"
            /\ r.out = <<NextError("none", "store")>>
            /\ books = r.pre.books
            /\ instances = r.pre.instances

\* the read of the instances completed first and then the read of the Book
\* failed, in a delete POST for a Book nothing references
C9_Witness ==
  /\ req[1].kind = "book_delete_post"
  /\ req[1].failed
  /\ req[1].pending = {"book"}
  /\ req[1].id \in DOMAIN books
  /\ FindInstancesOf(req[1].id) = {}

====
